---- MODULE Spec2Model ----
(***************************************************************************)
(* Model of app.py, the TradingView -> MT4 signal bridge: a Flask          *)
(* application whose handlers /webhook, /latest, /pull, /health and / run  *)
(* on concurrent worker threads and share the module-level dictionary      *)
(* STATE = {"last", "pending"} without any lock.                           *)
(*                                                                         *)
(* Python values are tagged records [t, v]: t is "none", "str" (v is the   *)
(* sequence of the characters), "num" (v = <<m, e>> is the decimal number  *)
(* m * 10^-e with the least such e), "nan", "dict" (v is a function from   *)
(* keys to values), "list", or "sig" (a dict built by build_signal).       *)
(***************************************************************************)
EXTENDS Integers, Sequences, FiniteSets, TLC

\* ------------------------------------------------------------------ bounds
\* number of HTTP requests in one run
MaxReqs == 3

\* number of worker threads, each serving one request at a time
NumWorkers == 2

\* ------------------------------------------------------- Python values
None == [t |-> "none", v |-> <<>>]
Str(s) == [t |-> "str", v |-> s]
RECURSIVE Normal(_, _)
Normal(m, e) ==
  IF e > 0 /\ m % 10 = 0 THEN Normal(m \div 10, e - 1) ELSE <<m, e>>

Num(m, e) == [t |-> "num", v |-> Normal(m, e)]
NaN == [t |-> "nan", v |-> <<>>]
Dict(f) == [t |-> "dict", v |-> f]
True == [t |-> "bool", v |-> TRUE]
False == [t |-> "bool", v |-> FALSE]
List(s) == [t |-> "list", v |-> s]

\* the handlers' result when a Python exception escapes the view function
Raise == [t |-> "raise", v |-> <<>>]

\* bool(x)
Truthy(x) ==
  CASE x.t = "none" -> FALSE
    [] x.t = "str" -> Len(x.v) > 0
    [] x.t = "num" -> x.v[1] # 0
    [] x.t = "dict" -> DOMAIN x.v # {}
    [] x.t = "list" -> Len(x.v) > 0
    [] x.t = "bool" -> x.v
    [] OTHER -> TRUE

\* x or y
Or(x, y) == IF Truthy(x) THEN x ELSE y

\* d.get(k) on a dict
Get(d, k) == IF k \in DOMAIN d.v THEN d.v[k] ELSE None

\* str.strip() on a sequence of characters
IsSpace(c) == c \in {" ", "\t", "\n"}

RECURSIVE LStrip(_)
LStrip(s) == IF s # <<>> /\ IsSpace(Head(s)) THEN LStrip(Tail(s)) ELSE s

RECURSIVE RStrip(_)
RStrip(s) ==
  IF s # <<>> /\ IsSpace(s[Len(s)]) THEN RStrip(SubSeq(s, 1, Len(s) - 1)) ELSE s

Strip(s) == RStrip(LStrip(s))

\* str.upper() and str.lower() over the letters the inputs use
UpperChar(c) ==
  CASE c = "b" -> "B" [] c = "u" -> "U" [] c = "y" -> "Y" [] c = "s" -> "S"
    [] c = "e" -> "E" [] c = "l" -> "L" [] c = "o" -> "O" [] c = "n" -> "N"
    [] c = "g" -> "G" [] c = "h" -> "H" [] c = "r" -> "R" [] c = "t" -> "T"
    [] c = "a" -> "A" [] c = "x" -> "X" [] c = "d" -> "D"
    [] OTHER -> c

Upper(s) == [i \in 1..Len(s) |-> UpperChar(s[i])]

LowerChar(c) ==
  CASE c = "B" -> "b" [] c = "U" -> "u" [] c = "Y" -> "y" [] c = "S" -> "s"
    [] c = "E" -> "e" [] c = "L" -> "l" [] c = "O" -> "o" [] c = "N" -> "n"
    [] c = "G" -> "g" [] c = "H" -> "h" [] c = "R" -> "r" [] c = "T" -> "t"
    [] c = "A" -> "a" [] c = "X" -> "x" [] c = "D" -> "d"
    [] OTHER -> c

Lower(s) == [i \in 1..Len(s) |-> LowerChar(s[i])]

\* ------------------------------------------------------------ configuration
\* strings used by the inputs: the configured secret, the literals of the code
\* and the spellings of an action
sS == <<"s">>
sBUY == <<"B", "U", "Y">>
sSELL == <<"S", "E", "L", "L">>
sLONG == <<"L", "O", "N", "G">>
sSHORT == <<"S", "H", "O", "R", "T">>
sXAUUSD == <<"X", "A", "U", "U", "S", "D">>
sTV == <<"T", "V">>

\* the keys of the decoded mapping and of the JSON responses, as str
k_action == <<"a", "c", "t", "i", "o", "n">>
k_side == <<"s", "i", "d", "e">>
k_signal == <<"s", "i", "g", "n", "a", "l">>
k_symbol == <<"s", "y", "m", "b", "o", "l">>
k_ticker == <<"t", "i", "c", "k", "e", "r">>
k_lots == <<"l", "o", "t", "s">>
k_lot == <<"l", "o", "t">>
k_qty == <<"q", "t", "y">>
k_sl == <<"s", "l">>
k_tp == <<"t", "p">>
k_comment == <<"c", "o", "m", "m", "e", "n", "t">>
k_cmt == <<"c", "m", "t">>
k_magic == <<"m", "a", "g", "i", "c">>
k_id == <<"i", "d">>
k_signal_id == <<"s", "i", "g", "n", "a", "l", "_", "i", "d">>
k_secret == <<"s", "e", "c", "r", "e", "t">>
k_key == <<"k", "e", "y">>
k_token == <<"t", "o", "k", "e", "n">>
k_ok == <<"o", "k">>
k_pending == <<"p", "e", "n", "d", "i", "n", "g">>
k_last == <<"l", "a", "s", "t">>
k_error == <<"e", "r", "r", "o", "r">>
k_stored == <<"s", "t", "o", "r", "e", "d">>
k_time_pr == <<"t", "i", "m", "e", "_", "p", "r">>
k_window == <<"w", "i", "n", "d", "o", "w">>
k_start == <<"s", "t", "a", "r", "t">>
k_end == <<"e", "n", "d">>
k_has_secret == <<"h", "a", "s", "_", "s", "e", "c", "r", "e", "t">>
k_latest == <<"l", "a", "t", "e", "s", "t">>
k_enforced == <<"e", "n", "f", "o", "r", "c", "e", "d">>
k_service == <<"s", "e", "r", "v", "i", "c", "e">>
k_trade_window_pr ==
  <<"t", "r", "a", "d", "e", "_", "w", "i", "n", "d", "o", "w", "_", "p",
    "r">>

\* values of the environment variable SECRET before line 18 strips them
EnvSecrets == {<<>>, <<" ">>, sS, <<"s", " ">>}

\* times of day <<hour, minute, second>>; datetime.time compares them
\* lexicographically
TimeLE(a, b) ==
  \/ a[1] < b[1]
  \/ a[1] = b[1] /\ a[2] < b[2]
  \/ a[1] = b[1] /\ a[2] = b[2] /\ a[3] <= b[3]

\* instants now_pr() can return
Times == {<<9, 0, 0>>, <<10, 0, 0>>}

\* configured (TRADE_START, TRADE_END) pairs, after parse_hhmm
Windows == {<<<<9, 0, 0>>, <<9, 1, 0>>>>}

\* values of the environment variable ENFORCE_HOURS
EnvEnforce == {"1", "0"}

\* values of the environment variables TG_TOKEN and TG_CHAT_ID: none set, or
\* both
EnvTelegram == {<<<<>>, <<>>>>, <<<<"t">>, <<"c">>>>}

VARIABLES
  SECRET,          \* line 18: the configured secret, stripped
  TG_TOKEN,        \* line 19
  TG_CHAT_ID,      \* line 20
  ENFORCE_HOURS,   \* line 24
  TRADE_START,     \* line 32
  TRADE_END,       \* line 33
  last,            \* line 39: STATE["last"]
  pending,         \* line 40: STATE["pending"]
  pc,              \* per worker: the handler's position, "idle" between
                   \* two requests
  kind,            \* per worker: the endpoint of its latest request
  sig,             \* per worker: the handler's local variable sig
  resp,            \* per worker: its latest HTTP response [status, body]
  served,          \* number of requests that have arrived
  nextObj,         \* identity of the next dict build_signal allocates
  notified,        \* the calls of tg_send in their order: <<signal, outcome>>
  hist,            \* history of the completed /webhook and /pull requests:
                   \* <<"accept", signal, arrival>> and
                   \* <<"pull", signal or 0, arrival>>
  startIdx,        \* per worker: Len(hist) when its request arrived
  chk,             \* per worker, history: what its latest request carried
                   \* [authed, outside, action]
  call             \* a single call of a pure function: [f, args, done, ret]

vars == <<SECRET, TG_TOKEN, TG_CHAT_ID, ENFORCE_HOURS, TRADE_START, TRADE_END,
          last, pending, pc, kind, sig, resp, served, nextObj, notified, hist,
          startIdx, chk, call>>

\* what no handler changes: the configuration, and the call of the
\* specification of the pure functions
cfgVars ==
  <<SECRET, TG_TOKEN, TG_CHAT_ID, ENFORCE_HOURS, TRADE_START, TRADE_END, call>>

\* ------------------------------------------------------------ pure functions
\* in_trade_window without the comparison with TRADE_END
in_trade_window_NoEnd(t) ==
  IF ENFORCE_HOURS # "1" THEN TRUE ELSE TimeLE(TRADE_START, t)

\* in_trade_window with an exclusive end
in_trade_window_ExclusiveEnd(t) ==
  IF ENFORCE_HOURS # "1" THEN TRUE
  ELSE TimeLE(TRADE_START, t) /\ TimeLE(t, TRADE_END) /\ t # TRADE_END

\* in_trade_window(dt), lines 46-51, on the time of day t of dt
in_trade_window(t) ==
  IF ENFORCE_HOURS # "1" THEN TRUE
  ELSE TimeLE(TRADE_START, t) /\ TimeLE(t, TRADE_END)

\* tg_send, lines 53-60: the outcomes of a call.  Without a token or a chat
\* id the call returns at line 55 ("skipped"); otherwise the POST of line 58
\* succeeds ("sent") or raises or times out, which line 59 swallows
\* ("failed").  The requests library is taken to be installed.
tg_send ==
  IF TG_TOKEN = <<>> \/ TG_CHAT_ID = <<>> THEN {"skipped"}
  ELSE {"sent", "failed"}

\* line 66: payload_secret or header_secret or query_secret or ""
candidate_of(payload_secret, header_secret, query_secret) ==
  Or(Or(Or(payload_secret, header_secret), query_secret), Str(<<>>))

\* check_secret, lines 62-67: whether the call ends in an exception, which is
\* when line 66 applies .strip() to a candidate that is not a str
check_secret_raises(payload_secret, header_secret, query_secret) ==
  /\ SECRET # <<>>
  /\ candidate_of(payload_secret, header_secret, query_secret).t # "str"

\* check_secret accepting when any of the three candidates is the secret
check_secret_Any(payload_secret, header_secret, query_secret) ==
  /\ SECRET # <<>>
  /\ \E c \in {payload_secret, header_secret, query_secret} :
       c.t = "str" /\ Strip(c.v) = SECRET

\* check_secret, lines 62-67: the value returned when the call returns
check_secret(payload_secret, header_secret, query_secret) ==
  IF SECRET = <<>> THEN FALSE
  ELSE LET candidate ==
             candidate_of(payload_secret, header_secret, query_secret)
       IN candidate.t = "str" /\ Strip(candidate.v) = SECRET

\* normalize_action without the .strip() of line 70
normalize_action_NoStrip(a) ==
  LET a1 == Or(a, Str(<<>>))
  IN IF a1.t # "str" THEN Raise
     ELSE LET a2 == Upper(a1.v)
          IN IF a2 \in {sBUY, sLONG} THEN Str(sBUY)
             ELSE IF a2 \in {sSELL, sSHORT} THEN Str(sSELL)
             ELSE Str(<<>>)

\* normalize_action, lines 69-75: the str returned, or Raise when line 70
\* applies .strip() to a value that is not a str
normalize_action(a) ==
  LET a1 == Or(a, Str(<<>>))
  IN IF a1.t # "str" THEN Raise
     ELSE LET a2 == Upper(Strip(a1.v))
          IN IF a2 \in {sBUY, sLONG} THEN Str(sBUY)
             ELSE IF a2 \in {sSELL, sSHORT} THEN Str(sSELL)
             ELSE Str(<<>>)

\* float(s) on a stripped str, line 86: [sign] digits [. digits] and
\* [sign] . digits and nan; the inputs carry no exponent, underscore or inf
IsDigit(c) == c \in {"0", "1", "2", "3", "4", "5", "6", "7", "8", "9"}

DigitVal(c) ==
  CASE c = "0" -> 0 [] c = "1" -> 1 [] c = "2" -> 2 [] c = "3" -> 3
    [] c = "4" -> 4 [] c = "5" -> 5 [] c = "6" -> 6 [] c = "7" -> 7
    [] c = "8" -> 8 [] OTHER -> 9

AllDigits(s) == \A i \in 1..Len(s) : IsDigit(s[i])

RECURSIVE DigitsVal(_)
DigitsVal(s) ==
  IF s = <<>> THEN 0
  ELSE 10 * DigitsVal(SubSeq(s, 1, Len(s) - 1)) + DigitVal(s[Len(s)])

\* the unsigned part of a float literal: the value, or None when float()
\* raises ValueError
ParseUnsigned(s) ==
  LET dots == {i \in 1..Len(s) : s[i] = "."}
  IN IF dots = {}
     THEN IF s # <<>> /\ AllDigits(s) THEN Num(DigitsVal(s), 0) ELSE None
     ELSE IF Cardinality(dots) > 1 THEN None
     ELSE LET i == CHOOSE j \in dots : TRUE
              ip == SubSeq(s, 1, i - 1)
              fp == SubSeq(s, i + 1, Len(s))
          IN IF AllDigits(ip) /\ AllDigits(fp) /\ Len(ip) + Len(fp) > 0
             THEN Num(DigitsVal(ip \o fp), Len(fp))
             ELSE None

ParseFloat(s) ==
  LET signed == s # <<>> /\ Head(s) \in {"+", "-"}
      body == IF signed THEN Tail(s) ELSE s
      u == ParseUnsigned(body)
  IN IF Lower(body) = <<"n", "a", "n">> THEN NaN
     ELSE IF u.t = "num" /\ signed /\ Head(s) = "-"
          THEN Num(0 - u.v[1], u.v[2])
          ELSE u

\* safe_float, lines 77-88
safe_float(x) ==
  CASE x.t = "none" -> None
    [] x.t \in {"num", "nan"} -> x
    [] x.t = "str" ->
         LET s == Strip(x.v)
         IN IF s = <<>> \/ Lower(s) = <<"n", "a">> THEN None ELSE ParseFloat(s)
    [] OTHER -> None   \* str(x) of a dict or a list is no float literal

\* int(x) of a float, line 97: truncation towards zero; an exception for nan
RECURSIVE Pow10(_)
Pow10(e) == IF e = 0 THEN 1 ELSE 10 * Pow10(e - 1)

IntOf(x) ==
  IF x.t # "num" THEN Raise
  ELSE IF x.v[1] >= 0 THEN Num(x.v[1] \div Pow10(x.v[2]), 0)
  ELSE Num(0 - ((0 - x.v[1]) \div Pow10(x.v[2])), 0)

\* (x).strip() of lines 92, 96, 99: the stripped str, or Raise for a value
\* that has no strip method
StripValue(x) == IF x.t = "str" THEN Str(Strip(x.v)) ELSE Raise

\* build_signal, lines 90-113: the dict built from the decoded mapping data,
\* with u the text of str(uuid.uuid4())[:8], ts the instant of now_pr() and
\* obj the identity of the new dict; Raise when a line raises
build_signal(data, u, ts, obj) ==
  LET action == normalize_action(
                  Or(Or(Get(data, k_action), Get(data, k_side)),
                     Get(data, k_signal)))
      symbol == StripValue(Or(Or(Get(data, k_symbol), Get(data, k_ticker)),
                              Str(sXAUUSD)))
      lots == Or(safe_float(Or(Or(Or(Get(data, k_lots), Get(data, k_lot)),
                                  Get(data, k_qty)), Num(1, 2))),
                 Num(1, 2))
      sl == safe_float(Get(data, k_sl))
      tp == safe_float(Get(data, k_tp))
      comment == StripValue(Or(Or(Get(data, k_comment), Get(data, k_cmt)),
                               Str(sTV)))
      magic == IntOf(Or(safe_float(Or(Get(data, k_magic), Num(2026, 0))),
                        Num(2026, 0)))
      sig_id == StripValue(Or(Or(Get(data, k_id), Get(data, k_signal_id)),
                              Str(u)))
  IN IF \/ action.t = "raise" \/ symbol.t = "raise" \/ comment.t = "raise"
        \/ magic.t = "raise" \/ sig_id.t = "raise"
     THEN Raise
     ELSE [t |-> "sig",
           v |-> [obj |-> obj, id |-> sig_id.v, ts |-> ts,
                  action |-> action.v, symbol |-> symbol.v, lots |-> lots,
                  sl |-> sl, tp |-> tp, comment |-> comment.v,
                  magic |-> magic.v[1], raw |-> data]]

\* ------------------------------------------------------------ the decoder
\* s.split(c): the pieces of s between the occurrences of the character c
RECURSIVE Split(_, _)
Split(s, c) ==
  LET hits == {i \in 1..Len(s) : s[i] = c}
  IN IF hits = {} THEN <<s>>
     ELSE LET i == CHOOSE j \in hits : \A k \in hits : j <= k
          IN <<SubSeq(s, 1, i - 1)>> \o Split(SubSeq(s, i + 1, Len(s)), c)

\* sub in s
Contains(sub, s) ==
  \E i \in 1..(Len(s) - Len(sub) + 1) : SubSeq(s, i, i + Len(sub) - 1) = sub

\* lines 146-151: the mapping of the KEY=VALUE lines, a later line
\* overwriting an earlier one with the same key
KeyOf(line) == Strip(Split(line, "=")[1])

ValueOf(line) ==
  LET i == CHOOSE j \in 1..Len(line) :
             line[j] = "=" /\ \A k \in 1..(j - 1) : line[k] # "="
  IN Strip(SubSeq(line, i + 1, Len(line)))

KeyValueLines(body) ==
  LET lines == Split(body, "\n")
      idx == {i \in 1..Len(lines) : Contains(<<"=">>, lines[i])}
      keys == {KeyOf(lines[i]) : i \in idx}
      lastOf(k) == CHOOSE i \in idx :
                     /\ KeyOf(lines[i]) = k
                     /\ \A j \in idx : KeyOf(lines[j]) = k => j <= i
  IN Dict([k \in keys |-> Str(ValueOf(lines[lastOf(k)]))])

\* the mapping of a pipe line with the positions of sl and tp exchanged
PipeLine_SwapSlTp(body) ==
  LET parts == Split(body, "|")
      names == <<k_action, k_symbol, k_lots, k_tp, k_sl>>
      n == IF Len(parts) < 5 THEN Len(parts) ELSE 5
  IN Dict([k \in {names[i] : i \in 1..n} |->
             Str(Strip(parts[CHOOSE i \in 1..n : names[i] = k]))])

\* lines 135-143: the mapping of a pipe line
PipeLine(body) ==
  LET parts == Split(body, "|")
      names == <<k_action, k_symbol, k_lots, k_sl, k_tp>>
      n == IF Len(parts) < 5 THEN Len(parts) ELSE 5
  IN Dict([k \in {names[i] : i \in 1..n} |->
             Str(Strip(parts[CHOOSE i \in 1..n : names[i] = k]))])

\* parse_body_to_dict, lines 115-151.  A request body is
\*   [is_json, form |-> "json", val]  a text that is the JSON encoding of val
\*   [is_json, form |-> "text", text] a text that is no JSON document
\* and a JSON text that arrives without the JSON content type encodes an
\* object (so that lines 128-130 return it).
parse_body_to_dict(req) ==
  IF req.is_json
  THEN IF req.form = "json" THEN Or(req.val, Dict(<<>>)) ELSE Dict(<<>>)
  ELSE IF req.form = "json" THEN req.val
  ELSE LET body == Strip(req.text)
       IN IF body = <<>> THEN Dict(<<>>)
          ELSE IF /\ Contains(<<"|">>, body)
                  /\ \/ Contains(sBUY, Upper(body))
                     \/ Contains(sSELL, Upper(body))
          THEN PipeLine(body)
          ELSE KeyValueLines(body)

\* --------------------------------------------------------- the txt encoding
\* str(n) of a non-negative int
RECURSIVE NatStr(_)
NatStr(n) ==
  LET d == <<"0", "1", "2", "3", "4", "5", "6", "7", "8", "9">>
  IN IF n < 10 THEN <<d[n + 1]>> ELSE NatStr(n \div 10) \o <<d[(n % 10) + 1]>>

IntStr(n) == IF n < 0 THEN <<"-">> \o NatStr(0 - n) ELSE NatStr(n)

\* the digits of n, padded with zeros on the left to w characters
RECURSIVE PadTo(_, _)
PadTo(n, w) ==
  IF w <= 1 THEN NatStr(n)
  ELSE IF n < Pow10(w - 1) THEN <<"0">> \o PadTo(n, w - 1)
  ELSE NatStr(n)

\* str(x) of a float, lines 237, 238, 240, in the range where Python prints
\* no exponent
FloatStr(x) ==
  IF x.t = "nan" THEN <<"n", "a", "n">>
  ELSE LET m == x.v[1]
           e == x.v[2]
           a == IF m < 0 THEN 0 - m ELSE m
           sign == IF m < 0 THEN <<"-">> ELSE <<>>
       IN IF e = 0 THEN sign \o NatStr(a) \o <<".", "0">>
          ELSE sign \o NatStr(a \div Pow10(e)) \o <<".">> \o PadTo(a % Pow10(e), e)

\* the time of day of sig["ts"]; the date and the UTC offset of isoformat()
\* are the same in every instant of a run and are left out
TsStr(ts) ==
  PadTo(ts[1], 2) \o <<":">> \o PadTo(ts[2], 2) \o <<":">> \o PadTo(ts[3], 2)

\* .replace("|", " "), line 239
ReplacePipe(s) == [i \in 1..Len(s) |-> IF s[i] = "|" THEN " " ELSE s[i]]

\* the txt line with str(None) in the place of an absent sl or tp
TxtLine_StrNone(sg) ==
  LET none == <<"N", "o", "n", "e">>
      sl == IF sg.sl.t = "none" THEN none ELSE FloatStr(sg.sl)
      tp == IF sg.tp.t = "none" THEN none ELSE FloatStr(sg.tp)
      comment == ReplacePipe(sg.comment)
      bar == <<"|">>
  IN <<"O", "K">> \o bar \o sg.id \o bar \o sg.action \o bar \o sg.symbol
       \o bar \o FloatStr(sg.lots) \o bar \o sl \o bar \o tp \o bar
       \o TsStr(sg.ts) \o bar \o IntStr(sg.magic) \o bar \o comment

\* lines 235-241: the text of the txt response for the dict sig
TxtLine(sg) ==
  LET sl == IF sg.sl.t = "none" THEN <<>> ELSE FloatStr(sg.sl)
      tp == IF sg.tp.t = "none" THEN <<>> ELSE FloatStr(sg.tp)
      comment == ReplacePipe(sg.comment)
      bar == <<"|">>
  IN <<"O", "K">> \o bar \o sg.id \o bar \o sg.action \o bar \o sg.symbol
       \o bar \o FloatStr(sg.lots) \o bar \o sl \o bar \o tp \o bar
       \o TsStr(sg.ts) \o bar \o IntStr(sg.magic) \o bar \o comment

sNONE == <<"N", "O", "N", "E">>
s_txt == <<"t", "x", "t">>
s_json == <<"j", "s", "o", "n">>
s_unauthorized == <<"u", "n", "a", "u", "t", "h", "o", "r", "i", "z", "e", "d">>
s_outside ==
  <<"o", "u", "t", "s", "i", "d", "e", "_", "t", "r", "a", "d", "e", "_",
    "w", "i", "n", "d", "o", "w">>
s_missing ==
  <<"m", "i", "s", "s", "i", "n", "g", "_", "a", "c", "t", "i", "o", "n",
    "_", "B", "U", "Y", "_", "o", "r", "_", "S", "E", "L", "L">>
s_service == <<"t", "v", "-", "m", "t", "4", "-", "b", "r", "i", "d", "g", "e">>

\* START_HHMM and END_HHMM, lines 25-26: the text parse_hhmm reads t from
HHMM(t) == PadTo(t[1], 2) \o <<":">> \o PadTo(t[2], 2)

\* {"start": START_HHMM, "end": END_HHMM}, lines 159 and 189
WindowDict ==
  (k_start :> Str(HHMM(TRADE_START))) @@ (k_end :> Str(HHMM(TRADE_END)))

\* ------------------------------------------------------------- the requests
\* POST /webhook requests: the body, the X-Secret header, the secret query
\* parameter
\* a JSON object with the secret in the body: accepted
WReq1 ==
  [is_json |-> TRUE, form |-> "json", text |-> <<>>,
   val |-> Dict((k_secret :> Str(<<"s">>))
                  @@ (k_action :> Str(<<"b", "u", "y">>))
                  @@ (k_symbol :> Str(<<"e", "u", "r", "u", "s", "d">>))
                  @@ (k_lots :> Str(<<"0", ".", "1">>))),
   header |-> None, query |-> None]

\* the pipe dialect, with a negative size and the sentinel for an absent tp:
\* accepted
WReq2 ==
  [is_json |-> FALSE, form |-> "text", val |-> None,
   text |-> <<"S", "E", "L", "L", "|", "X", "A", "U", "U", "S", "D", "|", "-",
           "1", "|", "1", "9", "0", "0", "|", "n", "a">>,
   header |-> None, query |-> Str(<<"s">>)]

\* an action that is neither BUY nor SELL
WReq3 ==
  [is_json |-> TRUE, form |-> "json", text |-> <<>>,
   val |-> Dict((k_secret :> Str(<<"s">>))
                  @@ (k_side :> Str(<<"h", "o", "l", "d">>))),
   header |-> None, query |-> None]

\* an action that is a JSON number
WReq4 ==
  [is_json |-> TRUE, form |-> "json", text |-> <<>>,
   val |-> Dict((k_secret :> Str(<<"s">>))
                  @@ (k_action :> Num(5, 0))),
   header |-> None, query |-> None]

\* a wrong secret in the body, the right one in the header
WReq5 ==
  [is_json |-> TRUE, form |-> "json", text |-> <<>>,
   val |-> Dict((k_secret :> Str(<<"x">>))
                  @@ (k_action :> Str(<<"b", "u", "y">>))),
   header |-> Str(<<"s">>), query |-> None]

\* no secret in the body or the header, the right one, padded, in the query;
\* no valid action
WReq6 ==
  [is_json |-> TRUE, form |-> "json", text |-> <<>>,
   val |-> Dict((k_signal :> Str(<<"b", "u", "y", "s">>))),
   header |-> None, query |-> Str(<<" ", "s">>)]

\* a JSON array
WReq7 ==
  [is_json |-> TRUE, form |-> "json", text |-> <<>>,
   val |-> List(<<Str(sS)>>),
   header |-> Str(<<"s">>), query |-> None]

\* the KEY=VALUE dialect, no valid action
WReq8 ==
  [is_json |-> FALSE, form |-> "text", val |-> None,
   text |-> <<"s", "e", "c", "r", "e", "t", "=", "s", "\n", "a", "c", "t",
           "i", "o", "n", "=", "l", "o", "n", "g", "s">>,
   header |-> None, query |-> None]

\* a malformed body sent as JSON
WReq9 ==
  [is_json |-> TRUE, form |-> "text", val |-> None,
   text |-> <<"{">>,
   header |-> Str(<<"s">>), query |-> None]

\* a secret that is a JSON number
WReq10 ==
  [is_json |-> TRUE, form |-> "json", text |-> <<>>,
   val |-> Dict((k_secret :> Num(5, 0))
                  @@ (k_action :> Str(<<"b", "u", "y">>))),
   header |-> Str(<<"s">>), query |-> None]

\* no secret at all
WReq11 ==
  [is_json |-> TRUE, form |-> "json", text |-> <<>>,
   val |-> Dict((k_action :> Str(<<"b", "u", "y">>))),
   header |-> None, query |-> None]

\* an id and a comment that contain the separator of the txt line, numbers
\* given as text and as JSON numbers: accepted
WReq12 ==
  [is_json |-> TRUE, form |-> "json", text |-> <<>>,
   val |-> Dict((k_secret :> Str(<<"s">>))
                  @@ (k_action :> Str(<<"s", "e", "l", "l">>))
                  @@ (k_id :> Str(<<"a", "|", "b">>))
                  @@ (k_sl :> Str(<<"1", ".", "5", "0">>))
                  @@ (k_tp :> Num(1900, 0))
                  @@ (k_magic :> Str(<<"7">>))
                  @@ (k_comment :> Str(<<"x", "|", "y">>))),
   header |-> None, query |-> None]

\* the KEY=VALUE dialect with the sentinel for an absent sl, a magic number
\* with a fraction and a padded id: accepted
WReq13 ==
  [is_json |-> FALSE, form |-> "text", val |-> None,
   text |-> <<"s", "e", "c", "r", "e", "t", "=", "s", "\n", "a", "c", "t",
           "i", "o", "n", "=", " ", "L", "o", "n", "g", "\n", "q", "t",
           "y", "=", "2", "\n", "s", "l", "=", "N", "A", "\n", "t", "p",
           "=", ".", "5", "\n", "m", "a", "g", "i", "c", "=", "7", "7",
           ".", "9", "\n", "i", "d", "=", " ", "k", "1", " ">>,
   header |-> None, query |-> None]

WebhookReqs ==
  {WReq1, WReq2, WReq3, WReq4, WReq5, WReq6,
   WReq7, WReq8, WReq9, WReq10, WReq11}

\* GET /pull and GET /latest requests: the X-Secret header, the secret and the
\* format query parameters
GetReqs ==
  {[header |-> None, query |-> Str(sS), format |-> None],
   [header |-> None, query |-> Str(sS), format |-> Str(<<"T", "X", "T">>)],
   [header |-> Str(<<"s", " ">>), query |-> None, format |-> Str(s_json)],
   [header |-> Str(<<"x">>), query |-> Str(sS), format |-> None],
   [header |-> Str(<<>>), query |-> Str(<<>>), format |-> Str(s_txt)],
   [header |-> None, query |-> None, format |-> None]}

\* the text of str(uuid.uuid4())[:8] at the n-th call: a fresh identifier
Uuid(n) == <<"u">> \o NatStr(n)

\* ------------------------------------------------------------ the handlers
Workers == 1..NumWorkers

NoResp == [status |-> 0, body |-> None]

Reply(status, body) == [status |-> status, body |-> body]

\* the response of Flask to a view function that raises
Error500 == Reply(500, None)

Unauthorized ==
  Reply(401, Dict((k_ok :> False) @@ (k_error :> Str(s_unauthorized))))

NoChk == [authed |-> FALSE, outside |-> FALSE, action |-> "none"]

NoCall == [f |-> "none", args |-> <<>>, done |-> FALSE, ret |-> None]

\* the state after the module is loaded, lines 18-41, with the window one
\* of W
LoadedFrom(W) ==
  /\ SECRET \in {Strip(e) : e \in EnvSecrets}
  /\ \E g \in EnvTelegram : TG_TOKEN = Strip(g[1]) /\ TG_CHAT_ID = Strip(g[2])
  /\ ENFORCE_HOURS \in EnvEnforce
  /\ \E w \in W : TRADE_START = w[1] /\ TRADE_END = w[2]
  /\ last = None
  /\ pending = None
  /\ pc = [p \in Workers |-> "idle"]
  /\ kind = [p \in Workers |-> "none"]
  /\ sig = [p \in Workers |-> None]
  /\ resp = [p \in Workers |-> NoResp]
  /\ served = 0
  /\ nextObj = 1
  /\ notified = <<>>
  /\ hist = <<>>
  /\ startIdx = [p \in Workers |-> 0]
  /\ chk = [p \in Workers |-> NoChk]

Loaded == LoadedFrom(Windows)

Init == Loaded /\ call = NoCall

\* a request for the endpoint k arrives and the first idle worker serves it;
\* c is what the history records of the request
Arrives(p, k, c) ==
  /\ served < MaxReqs
  /\ pc[p] = "idle"
  /\ \A q \in Workers : q < p => pc[q] # "idle"
  /\ served' = served + 1
  /\ kind' = [kind EXCEPT ![p] = k]
  /\ startIdx' = [startIdx EXCEPT ![p] = Len(hist)]
  /\ chk' = [chk EXCEPT ![p] = c]

\* the view function returns the response r
Finish(p, r) ==
  /\ pc' = [pc EXCEPT ![p] = "idle"]
  /\ resp' = [resp EXCEPT ![p] = r]
  /\ sig' = [sig EXCEPT ![p] = None]

\* an early return of a view function with the response r
Returns(r) == [t |-> "return", v |-> r]

\* line 176
payload_secret_of(data) ==
  Or(Or(Get(data, k_secret), Get(data, k_key)), Get(data, k_token))

\* webhook, lines 174-194: everything before the store is written: the dict
\* sig, an early return, or Raise.  t1 is the instant of line 183, t2 that of
\* line 100.
WebhookOutcome(req, t1, t2) ==
  LET data == parse_body_to_dict(req)
  IN IF data.t # "dict" THEN Raise   \* line 176: no method get
     ELSE LET payload_secret == payload_secret_of(data)
          IN IF check_secret_raises(payload_secret, req.header, req.query)
             THEN Raise
             ELSE IF ~check_secret(payload_secret, req.header, req.query)
             THEN Returns(Unauthorized)
             ELSE IF ~in_trade_window(t1)
             THEN Returns(Reply(403, Dict((k_ok :> False)
                                          @@ (k_error :> Str(s_outside))
                                          @@ (k_time_pr :> Str(TsStr(t1)))
                                          @@ (k_window :> Dict(WindowDict)))))
             ELSE LET sg == build_signal(data, Uuid(nextObj), t2, nextObj)
                  IN IF sg.t = "raise" THEN Raise
                     ELSE IF sg.v.action = <<>>
                     THEN Returns(Reply(400, Dict((k_ok :> False)
                                                  @@ (k_error :> Str(s_missing)))))
                     ELSE sg

\* history: whether the request authenticates, whether it arrives outside
\* the enforced window, and whether its action is one of the four spellings
\* ("valid"), another text or nothing ("invalid") or no text ("nontext")
Authenticates(b, h, q) == ~check_secret_raises(b, h, q) /\ check_secret(b, h, q)

OutsideWindow(t) ==
  ENFORCE_HOURS = "1" /\ ~(TimeLE(TRADE_START, t) /\ TimeLE(t, TRADE_END))

ActionClass(data) ==
  LET a == Or(Or(Get(data, k_action), Get(data, k_side)), Get(data, k_signal))
  IN IF ~Truthy(a) THEN "invalid"
     ELSE IF a.t # "str" THEN "nontext"
     ELSE IF Upper(Strip(a.v)) \in {sBUY, sLONG, sSELL, sSHORT} THEN "valid"
     ELSE "invalid"

WebhookChk(req, t1) ==
  LET data == parse_body_to_dict(req)
  IN IF data.t # "dict" THEN NoChk
     ELSE [authed |-> Authenticates(payload_secret_of(data), req.header,
                                    req.query),
           outside |-> OutsideWindow(t1),
           action |-> ActionClass(data)]

GetChk(req) ==
  [authed |-> Authenticates(None, req.header, req.query), outside |-> FALSE,
   action |-> "none"]

WebhookBegin(p, req, t1, t2) ==
  /\ Arrives(p, "webhook", WebhookChk(req, t1))
  /\ TimeLE(t1, t2)
  /\ LET out == WebhookOutcome(req, t1, t2)
     IN IF out.t = "sig"
        THEN /\ sig' = [sig EXCEPT ![p] = out]
             /\ nextObj' = nextObj + 1
             /\ pc' = [pc EXCEPT ![p] = "w_last"]
             /\ resp' = [resp EXCEPT ![p] = NoResp]
        ELSE /\ Finish(p, IF out.t = "raise" THEN Error500 ELSE out.v)
             /\ UNCHANGED nextObj
  /\ UNCHANGED <<cfgVars, last, pending, notified, hist>>

\* line 197
WebhookStoreLast(p) ==
  /\ pc[p] = "w_last"
  /\ last' = sig[p]
  /\ pc' = [pc EXCEPT ![p] = "w_pending"]
  /\ UNCHANGED <<cfgVars, pending, kind, sig, resp, served, nextObj, notified,
                 hist, startIdx, chk>>

\* line 198
WebhookStorePending(p) ==
  /\ pc[p] = "w_pending"
  /\ pending' = sig[p]
  /\ pc' = [pc EXCEPT ![p] = "w_notify"]
  /\ UNCHANGED <<cfgVars, last, kind, sig, resp, served, nextObj, notified,
                 hist, startIdx, chk>>

\* lines 200-202 with the exception of a failed notification escaping
\* tg_send
WebhookRespond_Surfaces(p) ==
  /\ pc[p] = "w_notify"
  /\ \E o \in tg_send :
       /\ notified' = Append(notified, <<sig[p].v.obj, o>>)
       /\ IF o = "failed"
          THEN Finish(p, Error500) /\ UNCHANGED hist
          ELSE /\ Finish(p, Reply(200, Dict((k_ok :> True) @@ (k_stored :> True)
                                            @@ (k_id :> Str(sig[p].v.id))
                                            @@ (k_time_pr :>
                                                  Str(TsStr(sig[p].v.ts))))))
               /\ hist' = Append(hist, <<"accept", sig[p].v.obj, startIdx[p]>>)
  /\ UNCHANGED <<cfgVars, last, pending, kind, served, nextObj, startIdx,
                 chk>>

\* lines 200-202: tg_send, whose outcome is discarded, and the response
WebhookRespond(p) ==
  /\ pc[p] = "w_notify"
  /\ \E o \in tg_send : notified' = Append(notified, <<sig[p].v.obj, o>>)
  /\ Finish(p, Reply(200, Dict((k_ok :> True) @@ (k_stored :> True)
                               @@ (k_id :> Str(sig[p].v.id))
                               @@ (k_time_pr :> Str(TsStr(sig[p].v.ts))))))
  /\ hist' = Append(hist, <<"accept", sig[p].v.obj, startIdx[p]>>)
  /\ UNCHANGED <<cfgVars, last, pending, kind, served, nextObj, startIdx,
                 chk>>

\* line 224
fmt_of(req) == Lower(Or(req.format, Str(s_json)).v)

\* lines 226-230 and 235-243: the response for the value sg of sig
PullReply(sg, fmt) ==
  IF sg.t = "none"
  THEN IF fmt = s_txt THEN Reply(200, Str(sNONE))
       ELSE Reply(200, Dict((k_ok :> True) @@ (k_pending :> None)))
  ELSE IF fmt = s_txt THEN Reply(200, Str(TxtLine(sg.v)))
       ELSE Reply(200, Dict((k_ok :> True) @@ (k_pending :> sg)))

\* the signal a response of /pull hands to the poller: its identity, 0 for
\* NONE and for pending null
Handed(sg) == IF sg.t = "sig" THEN sg.v.obj ELSE 0

\* pull clearing STATE["pending"] before it authenticates the request
PullBegin_ClearsFirst(p, req) ==
  /\ Arrives(p, "pull", GetChk(req))
  /\ IF ~check_secret(None, req.header, req.query)
     THEN /\ Finish(p, Unauthorized)
          /\ pending' = None
          /\ UNCHANGED hist
     ELSE IF pending.t = "none"
     THEN /\ Finish(p, PullReply(None, fmt_of(req)))
          /\ hist' = Append(hist, <<"pull", 0, Len(hist)>>)
          /\ UNCHANGED pending
     ELSE /\ sig' = [sig EXCEPT ![p] = pending]
          /\ pc' = [pc EXCEPT ![p] = "p_clear"]
          /\ resp' = [resp EXCEPT ![p] = Reply(0, Str(fmt_of(req)))]
          /\ UNCHANGED <<hist, pending>>
  /\ UNCHANGED <<cfgVars, last, nextObj, notified>>

\* pull, lines 219-230: authentication and the read of STATE["pending"]
PullBegin(p, req) ==
  /\ Arrives(p, "pull", GetChk(req))
  /\ IF ~check_secret(None, req.header, req.query)
     THEN /\ Finish(p, Unauthorized)
          /\ UNCHANGED hist
     ELSE IF pending.t = "none"
     THEN /\ Finish(p, PullReply(None, fmt_of(req)))
          /\ hist' = Append(hist, <<"pull", 0, Len(hist)>>)
     ELSE /\ sig' = [sig EXCEPT ![p] = pending]
          /\ pc' = [pc EXCEPT ![p] = "p_clear"]
          /\ resp' = [resp EXCEPT ![p] = Reply(0, Str(fmt_of(req)))]
          /\ UNCHANGED hist
  /\ UNCHANGED <<cfgVars, last, pending, nextObj, notified>>

\* pull without the clearing of line 233
PullClear_Keeps(p) ==
  /\ pc[p] = "p_clear"
  /\ Finish(p, PullReply(sig[p], resp[p].body.v))
  /\ hist' = Append(hist, <<"pull", Handed(sig[p]), startIdx[p]>>)
  /\ UNCHANGED <<cfgVars, last, pending, kind, served, nextObj, notified,
                 startIdx, chk>>

\* pull clearing STATE["last"] together with STATE["pending"]
PullClear_Both(p) ==
  /\ pc[p] = "p_clear"
  /\ pending' = None
  /\ last' = None
  /\ Finish(p, PullReply(sig[p], resp[p].body.v))
  /\ hist' = Append(hist, <<"pull", Handed(sig[p]), startIdx[p]>>)
  /\ UNCHANGED <<cfgVars, kind, served, nextObj, notified, startIdx, chk>>

\* pull, lines 233-243: the clearing of STATE["pending"] and the response
PullClear(p) ==
  /\ pc[p] = "p_clear"
  /\ pending' = None
  /\ Finish(p, PullReply(sig[p], resp[p].body.v))
  /\ hist' = Append(hist, <<"pull", Handed(sig[p]), startIdx[p]>>)
  /\ UNCHANGED <<cfgVars, last, kind, served, nextObj, notified,
                 startIdx, chk>>

\* latest, lines 206-211
Latest(p, req) ==
  /\ Arrives(p, "latest", GetChk(req))
  /\ IF ~check_secret(None, req.header, req.query)
     THEN Finish(p, Unauthorized)
     ELSE Finish(p, Reply(200, Dict((k_ok :> True) @@ (k_last :> last))))
  /\ UNCHANGED <<cfgVars, last, pending, nextObj, notified, hist>>

\* health, line 168: the read of STATE["pending"]
HealthBegin(p) ==
  /\ Arrives(p, "health", NoChk)
  /\ pc' = [pc EXCEPT ![p] = "h_last"]
  /\ resp' = [resp EXCEPT ![p] =
                Reply(0, IF pending.t = "none" THEN False ELSE True)]
  /\ UNCHANGED <<cfgVars, last, pending, sig, nextObj, notified, hist>>

\* health, line 169: the read of STATE["last"] and the response; time_pr, the
\* reading of the clock that nothing else depends on, is left out of the body
HealthEnd(p) ==
  /\ pc[p] = "h_last"
  /\ Finish(p, Reply(200, Dict((k_ok :> True)
                               @@ (k_has_secret :> IF SECRET = <<>> THEN False
                                                   ELSE True)
                               @@ (k_pending :> resp[p].body)
                               @@ (k_latest :> IF Truthy(last)
                                               THEN Str(last.v.id) ELSE None))))
  /\ UNCHANGED <<cfgVars, last, pending, kind, served, nextObj, notified, hist,
                 startIdx, chk>>

\* root, lines 155-160; the constant list "endpoints" is left out of the body
Root(p) ==
  /\ Arrives(p, "root", NoChk)
  /\ Finish(p, Reply(200, Dict((k_service :> Str(s_service)) @@ (k_ok :> True)
                               @@ (k_trade_window_pr :>
                                     Dict(WindowDict
                                          @@ (k_enforced :>
                                                IF ENFORCE_HOURS = "1"
                                                THEN True ELSE False))))))
  /\ UNCHANGED <<cfgVars, last, pending, nextObj, notified, hist>>

Next ==
  \E p \in Workers :
    \/ \E req \in WebhookReqs, t1 \in Times, t2 \in Times :
         WebhookBegin(p, req, t1, t2)
    \/ WebhookStoreLast(p)
    \/ WebhookStorePending(p)
    \/ WebhookRespond(p)
    \/ \E req \in GetReqs : PullBegin(p, req)
    \/ PullClear(p)
    \/ \E req \in GetReqs : Latest(p, req)
    \/ HealthBegin(p)
    \/ HealthEnd(p)
    \/ Root(p)

Spec == Init /\ [][Next]_vars

\* ------------------------------------------------ the sequential specification
\* no request is in service
Quiet == \A p \in Workers : pc[p] = "idle"

\* the same handlers, a request arriving only when no other is in service
SeqNext ==
  \E p \in Workers :
    \/ /\ Quiet
       /\ \E req \in WebhookReqs, t1 \in Times, t2 \in Times :
            WebhookBegin(p, req, t1, t2)
    \/ WebhookStoreLast(p)
    \/ WebhookStorePending(p)
    \/ WebhookRespond(p)
    \/ Quiet /\ \E req \in GetReqs : PullBegin(p, req)
    \/ PullClear(p)
    \/ Quiet /\ \E req \in GetReqs : Latest(p, req)
    \/ Quiet /\ HealthBegin(p)
    \/ HealthEnd(p)
    \/ Quiet /\ Root(p)

SeqSpec == Init /\ [][SeqNext]_vars

\* --------------------------------------- the specification of the pure functions
\* candidates of check_secret: what the body, the header and the query carry
SecretCands ==
  {None, Str(<<>>), Str(sS), Str(<<" ", "s", "\n">>), Str(<<"x">>),
   Str(<<"s", "s">>), Str(<<" ">>), Num(5, 0)}

\* a call that has not been made yet
Call(f, args) == [f |-> f, args |-> args, done |-> FALSE, ret |-> None]

CheckSecretCalls ==
  {Call("check_secret", <<b, h, q>>) :
     b \in SecretCands, h \in SecretCands, q \in SecretCands}

\* requests whose signal is rendered as a txt line
TxtReqs == {WReq1, WReq2, WReq12, WReq13}

PullTxtCalls == {Call("pull_txt", <<req, t>>) : req \in TxtReqs, t \in Times}

\* values of the fields action, symbol, lots, sl and tp of one alert: the
\* value a JSON object carries and the text a pipe line or a KEY=VALUE line
\* carries for it
ActionFields ==
  {<<Str(<<"b", "u", "y">>), <<"b", "u", "y">>>>,
   <<Str(<<" ", "S", "e", "l", "l">>), <<" ", "S", "e", "l", "l">>>>,
   <<Str(<<"l", "o", "n", "g">>), <<"l", "o", "n", "g">>>>}

SymbolFields ==
  {<<Str(sXAUUSD), sXAUUSD>>,
   <<Str(<<"e", "u", " ">>), <<"e", "u", " ">>>>,
   <<Str(<<>>), <<>>>>}

LotsFields ==
  {<<Str(<<"0", ".", "0", "2">>), <<"0", ".", "0", "2">>>>,
   <<Num(2, 2), <<"0", ".", "0", "2">>>>,
   <<Num(0, 0), <<"0">>>>,
   <<Str(<<"x">>), <<"x">>>>}

SlFields ==
  {<<Str(<<"1", "9", "0", "0">>), <<"1", "9", "0", "0">>>>,
   <<Num(1900, 0), <<"1", "9", "0", "0">>>>,
   <<Str(<<"n", "a">>), <<"n", "a">>>>}

TpFields ==
  {<<Str(<<"1", "9", "5", "0">>), <<"1", "9", "5", "0">>>>,
   <<Str(<<>>), <<>>>>}

DialectCalls ==
  {Call("dialects", <<<<a, y, l, x, z>>, t>>) :
     a \in ActionFields, y \in SymbolFields, l \in LotsFields,
     x \in SlFields, z \in TpFields, t \in {<<9, 0, 0>>}}

\* values of the keys action, side and signal; None for an absent key
ActionCands ==
  {None, Str(<<>>), Str(<<"b", "u", "y">>), Str(<<" ", "L", "o", "n", "g", "\n">>),
   Str(sSELL), Str(<<"s", "h", "o", "r", "t">>), Str(<<"h", "o", "l", "d">>),
   Str(<<" ">>), Num(5, 0)}

ActionCalls ==
  {Call("action", <<a, d, g>>) :
     a \in ActionCands, d \in ActionCands, g \in ActionCands}

\* the windows of the calls of in_trade_window: also one whose end precedes
\* its start
FnWindows == Windows \cup {<<<<9, 1, 0>>, <<9, 0, 0>>>>}

\* times of day in_trade_window is called with
FnTimes ==
  {<<8, 59, 59>>, <<9, 0, 0>>, <<9, 0, 30>>, <<9, 1, 0>>, <<9, 1, 1>>,
   <<10, 0, 0>>}

WindowCalls == {Call("in_trade_window", <<t>>) : t \in FnTimes}

FnCalls ==
  CheckSecretCalls \cup PullTxtCalls \cup DialectCalls \cup ActionCalls
    \cup WindowCalls

FnInit ==
  /\ LoadedFrom(FnWindows)
  /\ call \in FnCalls

\* check_secret(*call.args)
CallCheckSecret ==
  /\ call.f = "check_secret"
  /\ ~call.done
  /\ call' = [call EXCEPT
                !.done = TRUE,
                !.ret = IF check_secret_raises(call.args[1], call.args[2],
                                               call.args[3])
                        THEN Raise
                        ELSE IF check_secret(call.args[1], call.args[2],
                                             call.args[3])
                        THEN True ELSE False]
  /\ UNCHANGED <<SECRET, TG_TOKEN, TG_CHAT_ID, ENFORCE_HOURS, TRADE_START,
                 TRADE_END, last, pending, pc, kind, sig, resp, served,
                 nextObj, notified, hist, startIdx, chk>>

\* the call returns r
CallReturns(r) ==
  /\ ~call.done
  /\ call' = [call EXCEPT !.done = TRUE, !.ret = r]
  /\ UNCHANGED <<SECRET, TG_TOKEN, TG_CHAT_ID, ENFORCE_HOURS, TRADE_START,
                 TRADE_END, last, pending, pc, kind, sig, resp, served,
                 nextObj, notified, hist, startIdx, chk>>

\* webhook, lines 174-198, followed by pull, lines 226-241, with format=txt:
\* the signal the request call.args[1] stores at the instant call.args[2],
\* and the body of the txt response that hands it out; None when the request
\* stores nothing
CallPullTxt ==
  /\ call.f = "pull_txt"
  /\ LET out == WebhookOutcome(call.args[1], call.args[2], call.args[2])
     IN CallReturns(IF out.t = "sig"
                    THEN [t |-> "txt",
                          v |-> [sig |-> out.v,
                                 line |-> PullReply(out, s_txt).body.v]]
                    ELSE None)

\* the three bodies that carry the fields fs: a JSON object, a pipe line and
\* KEY=VALUE lines
JsonBody(fs) ==
  [is_json |-> TRUE, form |-> "json", text |-> <<>>,
   val |-> Dict((k_action :> fs[1][1]) @@ (k_symbol :> fs[2][1])
                  @@ (k_lots :> fs[3][1]) @@ (k_sl :> fs[4][1])
                  @@ (k_tp :> fs[5][1])),
   header |-> Str(sS), query |-> None]

PipeBody(fs) ==
  [is_json |-> FALSE, form |-> "text", val |-> None,
   text |-> fs[1][2] \o <<"|">> \o fs[2][2] \o <<"|">> \o fs[3][2]
              \o <<"|">> \o fs[4][2] \o <<"|">> \o fs[5][2],
   header |-> Str(sS), query |-> None]

KeyValueBody(fs) ==
  [is_json |-> FALSE, form |-> "text", val |-> None,
   text |-> k_action \o <<"=">> \o fs[1][2] \o <<"\n">>
              \o k_symbol \o <<"=">> \o fs[2][2] \o <<"\n">>
              \o k_lots \o <<"=">> \o fs[3][2] \o <<"\n">>
              \o k_sl \o <<"=">> \o fs[4][2] \o <<"\n">>
              \o k_tp \o <<"=">> \o fs[5][2],
   header |-> Str(sS), query |-> None]

\* lines 174 and 192 on the three bodies that carry the fields call.args[1]:
\* build_signal(parse_body_to_dict()) of each
CallDialects ==
  /\ call.f = "dialects"
  /\ LET fs == call.args[1]
         t == call.args[2]
     IN CallReturns(
          [t |-> "sigs",
           v |-> <<build_signal(parse_body_to_dict(JsonBody(fs)), Uuid(1), t, 1),
                   build_signal(parse_body_to_dict(PipeBody(fs)), Uuid(2), t, 2),
                   build_signal(parse_body_to_dict(KeyValueBody(fs)), Uuid(3),
                                t, 3)>>])

\* the mapping with the keys ks, the key ks[i] holding vs[i] and being
\* absent when vs[i] is None
MappingOf(ks, vs) ==
  Dict([k \in {ks[i] : i \in {j \in DOMAIN ks : vs[j] # None}} |->
          vs[CHOOSE i \in DOMAIN ks : ks[i] = k]])

\* line 91: the action build_signal resolves from the mapping whose keys
\* action, side and signal hold call.args
CallAction ==
  /\ call.f = "action"
  /\ LET data == MappingOf(<<k_action, k_side, k_signal>>, call.args)
         sg == build_signal(data, Uuid(1), <<9, 0, 0>>, 1)
     IN CallReturns(IF sg.t = "raise" THEN Raise ELSE Str(sg.v.action))

\* in_trade_window(dt) for a dt whose time of day is call.args[1]
CallInTradeWindow ==
  /\ call.f = "in_trade_window"
  /\ CallReturns(IF in_trade_window(call.args[1]) THEN True ELSE False)

FnNext ==
  \/ CallCheckSecret
  \/ CallPullTxt
  \/ CallDialects
  \/ CallAction
  \/ CallInTradeWindow

FnSpec == FnInit /\ [][FnNext]_vars

\* ------------------------------------------------------------------ claims
\* the step is the arrival of a request that the worker p serves
ArrivedAt(p) ==
  /\ served' = served + 1
  /\ pc[p] = "idle"
  /\ \A q \in Workers : q < p => pc[q] # "idle"

\* the worker p has answered a request for the endpoint k
Answered(p, k) == kind[p] = k /\ pc[p] = "idle" /\ resp[p].status # 0

\* the /pull responses in hist that arrived after the event i
PullsAfter(i) ==
  {j \in DOMAIN hist : j > i /\ hist[j][1] = "pull" /\ hist[j][3] >= i}

\* C1: after one accepted /webhook and no further write, of two or more
\* /pull requests that arrive afterwards exactly one returns the signal, the
\* others return absence.
C1_AtMostOnceDelivery ==
  \A i \in DOMAIN hist :
    (hist[i][1] = "accept" /\ nextObj = 2 /\ Cardinality(PullsAfter(i)) >= 2)
      => Cardinality({j \in PullsAfter(i) : hist[j][2] = hist[i][2]}) = 1

\* C2: whenever a /pull clears STATE["pending"], the signal it returns is the
\* value that was in STATE["pending"] immediately before the clearing.
C2_AtomicTake ==
  [][\A p \in Workers :
       (pc[p] = "p_clear" /\ pc'[p] = "idle") => pending = sig[p]]_vars

\* C3: in every reachable state pending is None or the very same signal as
\* last.
C3_PendingIsLast == pending = None \/ pending = last

\* C4: with an empty configured secret /webhook, /latest and /pull all answer
\* 401 and nothing is ever stored.
C4_FailClosed ==
  SECRET = <<>> =>
    /\ last = None
    /\ pending = None
    /\ \A p \in Workers, k \in {"webhook", "latest", "pull"} :
         Answered(p, k) => resp[p].status = 401

\* C5: in a sequential run, the first authorized /pull after an accepted
\* /webhook returns its signal, and an authorized /pull that follows another
\* authorized /pull, or no /webhook at all, returns absence.
C5_SecondPullEmpty ==
  \A i \in DOMAIN hist :
    hist[i][1] = "pull" =>
      IF i > 1 /\ hist[i - 1][1] = "accept"
      THEN hist[i][2] = hist[i - 1][2]
      ELSE hist[i][2] = 0

C5_Witness ==
  \E i \in DOMAIN hist :
    /\ i + 2 \in DOMAIN hist
    /\ hist[i][1] = "accept"
    /\ hist[i + 1] = <<"pull", hist[i][2], i>>
    /\ hist[i + 2] = <<"pull", 0, i + 1>>

\* C6: an authenticated /webhook that arrives outside the enforced window is
\* answered 403 and leaves last and pending as they were, whatever it carries.
C6_WindowRejects ==
  [][\A p \in Workers :
       (ArrivedAt(p) /\ kind'[p] = "webhook" /\ chk'[p].authed
          /\ chk'[p].outside)
         => /\ pc'[p] = "idle"
            /\ resp'[p].status = 403
            /\ last' = last
            /\ pending' = pending]_vars

C6_Witness ==
  \E p \in Workers :
    /\ Answered(p, "webhook")
    /\ chk[p].authed /\ chk[p].outside /\ chk[p].action = "valid"
    /\ resp[p].status = 403
    /\ pending # None

\* C7: an authenticated, admitted /webhook whose action is not one of the
\* spellings of BUY and SELL is answered 400 and stores nothing, and every
\* signal in last or pending has the action BUY or SELL.
C7_InvalidActionRejected ==
  /\ [][\A p \in Workers :
          (ArrivedAt(p) /\ kind'[p] = "webhook" /\ chk'[p].authed
             /\ ~chk'[p].outside /\ chk'[p].action \in {"invalid", "nontext"})
            => /\ pc'[p] = "idle"
               /\ resp'[p].status = 400
               /\ last' = last
               /\ pending' = pending]_vars
  /\ [](\A x \in {last, pending} : x # None => x.v.action \in {sBUY, sSELL})

\* the first candidate, in the order body, header, query, that is neither
\* absent nor the empty text; None when there is none
FirstNonEmpty(args) ==
  LET idx == {i \in 1..3 : args[i] # None /\ args[i] # Str(<<>>)}
  IN IF idx = {} THEN None
     ELSE args[CHOOSE i \in idx : \A j \in idx : i <= j]

\* C8: with a non-empty configured secret, check_secret accepts exactly when
\* the first non-empty candidate among body, header, query is, once trimmed,
\* the configured secret.
C8_FirstCandidateDecides ==
  (call.f = "check_secret" /\ call.done /\ SECRET # <<>>) =>
    LET c == FirstNonEmpty(call.args)
    IN (call.ret = True) <=> (c.t = "str" /\ Strip(c.v) = SECRET)

C8_Witness ==
  /\ call.f = "check_secret" /\ call.done /\ SECRET = sS
  /\ call.args = <<Str(<<"x">>), Str(sS), Str(<<" ", "s", "\n">>)>>
  /\ call.ret = False

\* the signal of the latest "accept" among the first n events of hist, 0 when
\* there is none
LatestAccepted(n) ==
  LET acc == {i \in 1..n : hist[i][1] = "accept"}
  IN IF acc = {} THEN 0
     ELSE hist[CHOOSE i \in acc : \A j \in acc : j <= i][2]

\* C9: last changes only when a /webhook stores a signal in it, /latest never
\* changes pending, and /latest returns the most recently accepted signal,
\* pulled or not.
C9_LastKept ==
  /\ [][/\ last' # last =>
             \E p \in Workers :
               pc[p] = "w_last" /\ pc'[p] = "w_pending" /\ last' = sig[p]
        /\ \A p \in Workers :
             (ArrivedAt(p) /\ kind'[p] = "latest") => pending' = pending]_vars
  /\ [](\A p \in Workers :
          (Answered(p, "latest") /\ resp[p].status = 200)
            => Handed(resp[p].body.v[k_last]) = LatestAccepted(startIdx[p]))

C9_Witness ==
  \E p \in Workers :
    /\ Answered(p, "latest") /\ resp[p].status = 200
    /\ pending = None
    /\ Handed(resp[p].body.v[k_last]) # 0
    /\ \E i \in 1..startIdx[p] :
         hist[i][1] = "pull" /\ hist[i][2] = Handed(resp[p].body.v[k_last])

\* C10: when two /webhook requests are accepted one after the other with no
\* consuming /pull between them, no later /pull returns the first signal and
\* the next /pull returns the second.
C10_LastWriteWins ==
  \A i \in DOMAIN hist, j \in DOMAIN hist :
    ( /\ i < j
      /\ hist[i][1] = "accept" /\ hist[j][1] = "accept" /\ hist[j][3] >= i
      /\ \A m \in (i + 1)..(j - 1) : hist[m][1] = "pull" => hist[m][2] = 0 )
      => /\ \A k \in DOMAIN hist :
              (k > j /\ hist[k][1] = "pull") => hist[k][2] # hist[i][2]
         /\ \A k \in PullsAfter(j) :
              ( /\ \A m \in PullsAfter(j) : k <= m
                /\ \A m \in (j + 1)..(k - 1) : hist[m][1] # "accept" )
                => hist[k][2] = hist[j][2]

\* C11: every response of every handler has one of the statuses 200, 400, 401
\* and 403; no request ends in an unhandled exception (answered 500 by Flask),
\* whatever its body is.
C11_WellFormedResponse ==
  \A p \in Workers : resp[p].status \in {0, 200, 400, 401, 403}

\* the integer a reader of the txt line parses from the decimal text s; None
\* when s is no decimal integer
ReadInt(s) ==
  LET neg == s # <<>> /\ Head(s) = "-"
      d == IF neg THEN Tail(s) ELSE s
  IN IF d = <<>> \/ ~AllDigits(d) THEN None
     ELSE Num(IF neg THEN 0 - DigitsVal(d) ELSE DigitsVal(d), 0)

\* C12: the txt line of every signal /webhook can store splits on "|" into
\* exactly 10 fields, from which id, action, symbol, lots, timestamp and magic
\* are read back exactly, and sl and tp are absent exactly when their fields
\* are empty.
C12_TxtRoundTrip ==
  (call.f = "pull_txt" /\ call.done /\ call.ret.t = "txt") =>
    LET sg == call.ret.v.sig
        f == Split(call.ret.v.line, "|")
    IN /\ Len(f) = 10
       /\ f[1] = <<"O", "K">>
       /\ f[2] = sg.id
       /\ f[3] = sg.action
       /\ f[4] = sg.symbol
       /\ ParseFloat(f[5]) = sg.lots
       /\ (f[6] = <<>>) <=> (sg.sl = None)
       /\ (f[7] = <<>>) <=> (sg.tp = None)
       /\ f[8] = TsStr(sg.ts)
       /\ ReadInt(f[9]) = Num(sg.magic, 0)

\* the pipe line that carries the fields fs contains BUY or SELL
PipeRecognized(fs) ==
  \/ Contains(sBUY, Upper(PipeBody(fs).text))
  \/ Contains(sSELL, Upper(PipeBody(fs).text))

\* the fields of a signal other than id, ts and raw
Core(sg) ==
  <<sg.v.action, sg.v.symbol, sg.v.lots, sg.v.sl, sg.v.tp, sg.v.comment,
    sg.v.magic>>

\* the JSON object carries every field as the very text the lines carry
\* once trimmed
PlainText(fs) ==
  \A i \in 1..5 : fs[i][1] = Str(fs[i][2]) /\ Strip(fs[i][2]) = fs[i][2]

PulledScenario(p) ==
  /\ Answered(p, "pull") /\ resp[p].status = 200 /\ resp[p].body.t = "str"
  /\ startIdx[p] >= 1
  /\ hist[startIdx[p]][1] = "accept"
  /\ last.t = "sig"
  /\ last.v.obj = hist[startIdx[p]][2]
  /\ last.v.raw = WReq1.val

\* the worker p has answered a /pull with format=txt that arrived directly
\* after another authorized /pull was answered
PulledAgain(p) ==
  /\ Answered(p, "pull") /\ resp[p].status = 200 /\ resp[p].body.t = "str"
  /\ startIdx[p] >= 1
  /\ hist[startIdx[p]][1] = "pull"

\* C14 as stated: after the accepted webhook with action buy, symbol eurusd,
\* lots 0.1 and no sl, tp, magic or comment, /pull with format=txt returns
\* OK|<id>|BUY|eurusd|0.1||<timestamp>|2026|TV, and an immediate second call
\* returns NONE.
C14_ScenarioLine ==
  \A p \in Workers :
    /\ PulledScenario(p) =>
         resp[p].body.v =
           <<"O", "K", "|">> \o last.v.id
             \o <<"|", "B", "U", "Y", "|", "e", "u", "r", "u", "s", "d", "|",
                  "0", ".", "1", "|", "|">>
             \o TsStr(last.v.ts) \o <<"|", "2", "0", "2", "6", "|", "T", "V">>
    /\ PulledAgain(p) => resp[p].body.v = sNONE

\* C14 amended: the body is OK|<id>|BUY|eurusd|0.1|||<timestamp>|2026|TV, with
\* one empty field for the absent sl and one for the absent tp (10 fields),
\* and an immediate second call returns NONE.
C14_ScenarioLineTenFields ==
  \A p \in Workers :
    /\ PulledScenario(p) =>
         resp[p].body.v =
           <<"O", "K", "|">> \o last.v.id
             \o <<"|", "B", "U", "Y", "|", "e", "u", "r", "u", "s", "d", "|",
                  "0", ".", "1", "|", "|", "|">>
             \o TsStr(last.v.ts) \o <<"|", "2", "0", "2", "6", "|", "T", "V">>
    /\ PulledAgain(p) => resp[p].body.v = sNONE

C14_Witness ==
  \E p \in Workers :
    /\ PulledScenario(p)
    /\ pending = None
    /\ Len(Split(resp[p].body.v, "|")) = 10
    /\ last.v.id = Uuid(1)

\* C15: the action is resolved from the first non-empty of the keys action,
\* side, signal, trimmed and uppercased: BUY and LONG give BUY, SELL and SHORT
\* give SELL, every other text, and no text at all, gives the empty (invalid)
\* action; a later key is never consulted when the first non-empty key holds
\* an unrecognized text.
C15_ActionNormalized ==
  LET c == FirstNonEmpty(call.args)
  IN (call.f = "action" /\ call.done /\ c.t \in {"none", "str"}) =>
       LET u == IF c.t = "none" THEN <<>> ELSE Upper(Strip(c.v))
       IN call.ret = Str(IF u \in {sBUY, sLONG} THEN sBUY
                         ELSE IF u \in {sSELL, sSHORT} THEN sSELL
                         ELSE <<>>)

C15_Witness ==
  /\ call.f = "action" /\ call.done
  /\ call.args = <<Str(<<" ">>), Str(<<" ", "L", "o", "n", "g", "\n">>),
                   Str(sSELL)>>
  /\ call.ret = Str(<<>>)

\* C16: every signal held in last or pending has a strictly positive lots: a
\* supplied size that is absent, unparseable, zero or negative is never
\* stored.
C16_LotsPositive ==
  \A x \in {last, pending} :
    x # None => x.v.lots.t = "num" /\ x.v.lots.v[1] > 0

\* C17: /webhook checks authentication, then the trading window, then the
\* action, then writes the store: a request is answered with the status of
\* the earliest check it fails (401 before 403 before 400), the arrival of a
\* request writes nothing, and only a request that passes all three checks
\* reaches the store write.
C17_CheckOrder ==
  /\ [][\A p \in Workers :
          (ArrivedAt(p) /\ kind'[p] = "webhook") =>
            /\ ~chk'[p].authed => resp'[p].status = 401
            /\ (chk'[p].authed /\ chk'[p].outside) => resp'[p].status = 403
            /\ (chk'[p].authed /\ ~chk'[p].outside
                  /\ chk'[p].action # "valid") => resp'[p].status = 400
            /\ last' = last
            /\ pending' = pending]_vars
  /\ [](\A p \in Workers :
          pc[p] \in {"w_last", "w_pending", "w_notify"} =>
            chk[p].authed /\ ~chk[p].outside /\ chk[p].action = "valid")

\* the second of the day of the time of day t
SecondOfDay(t) == 3600 * t[1] + 60 * t[2] + t[3]

\* C18: the gate admits exactly when enforcement is off, or it is on and
\* start <= time of day <= end, both bounds included; with enforcement on and
\* an end that precedes the start no time of day is admitted.
C18_WindowInclusive ==
  (call.f = "in_trade_window" /\ call.done) =>
    LET t == SecondOfDay(call.args[1])
        start == SecondOfDay(TRADE_START)
        end == SecondOfDay(TRADE_END)
    IN /\ (call.ret = True) <=>
            (ENFORCE_HOURS # "1" \/ (start <= t /\ t <= end))
       /\ (ENFORCE_HOURS = "1" /\ end < start) => call.ret = False

C18_Witness ==
  /\ call.f = "in_trade_window" /\ call.done
  /\ ENFORCE_HOURS = "1"
  /\ TimeLE(TRADE_START, TRADE_END) /\ TRADE_START # TRADE_END
  /\ call.args[1] = TRADE_END
  /\ call.ret = True

\* the number of the calls of tg_send for the signal o
Notifications(o) == Cardinality({i \in DOMAIN notified : notified[i][1] = o})

\* the number of the 200 responses of /webhook for the signal o
Acceptances(o) ==
  Cardinality({i \in DOMAIN hist : hist[i][1] = "accept" /\ hist[i][2] = o})

\* C19: tg_send is called exactly once for every accepted /webhook and never
\* for a request that is rejected; the call comes after the request has
\* written last and then pending; and whatever its outcome (sent, failed or
\* skipped for want of a configured channel), the response is the 200 with the
\* id of the signal and last and pending are left as they are.
C19_NotifyOncePerAccept ==
  /\ [](\A o \in 1..(nextObj - 1) :
          Notifications(o) = Acceptances(o) /\ Notifications(o) <= 1)
  /\ [][\A p \in Workers :
          /\ (ArrivedAt(p) /\ kind'[p] = "webhook" /\ pc'[p] = "idle")
               => notified' = notified
          /\ (pc[p] # "w_pending" /\ pc'[p] = "w_pending")
               => pc[p] = "w_last" /\ last' = sig[p]
          /\ (pc[p] # "w_notify" /\ pc'[p] = "w_notify")
               => pc[p] = "w_pending" /\ pending' = sig[p]]_vars
  /\ [][notified' # notified =>
          \E p \in Workers :
            /\ pc[p] = "w_notify" /\ pc'[p] = "idle"
            /\ \E o \in {"sent", "failed", "skipped"} :
                 notified' = Append(notified, <<sig[p].v.obj, o>>)
            /\ resp'[p].status = 200
            /\ resp'[p].body.v[k_id] = Str(sig[p].v.id)
            /\ last' = last
            /\ pending' = pending]_vars

C19_Witness ==
  \E p \in Workers :
    /\ Answered(p, "webhook") /\ resp[p].status = 200
    /\ Len(notified) = 2
    /\ notified[1][2] = "sent"
    /\ notified[2][2] = "failed"
    /\ last.t = "sig" /\ last.v.obj = notified[2][1]
    /\ pending = last
    /\ resp[p].body.v[k_id] = Str(last.v.id)

\* C20: a request that is answered 401 changes nothing of the delivery state:
\* last, pending, the signals other requests hold, the responses given and to
\* be given to authorized pollers and the notifications stay as they are, and
\* its body is the generic error; every /pull and /latest without the secret
\* is such a request.
C20_UnauthorizedInert ==
  [][\A p \in Workers :
       /\ (ArrivedAt(p) /\ resp'[p].status = 401)
            => /\ pc'[p] = "idle"
               /\ resp'[p].body = Unauthorized.body
               /\ UNCHANGED <<last, pending, hist, notified, nextObj>>
               /\ \A q \in Workers \ {p} :
                    sig'[q] = sig[q] /\ resp'[q] = resp[q] /\ pc'[q] = pc[q]
       /\ (ArrivedAt(p) /\ kind'[p] \in {"pull", "latest"} /\ ~chk'[p].authed)
            => resp'[p].status = 401]_vars

C20_Witness ==
  \E p \in Workers :
    /\ Answered(p, "pull") /\ resp[p].status = 401
    /\ pending.t = "sig"
    /\ \E i \in DOMAIN hist :
         /\ hist[i] = <<"accept", pending.v.obj, 0>>
         /\ startIdx[p] >= i
    /\ \A i \in DOMAIN hist : hist[i][1] # "pull"

====
